---- MODULE Spec2Model ----
(***************************************************************************)
(* Model of the tiling-and-aggregation subsystem of the screenshot monitor *)
(* (src/image_tiling.py) and of its caller                                 *)
(* ScreenshotMonitor.compare_with_claude_auto_tiling                        *)
(* (src/screenshot_monitor.py).                                            *)
(*                                                                         *)
(* A Python dict is a TLA+ record whose DOMAIN is the set of keys present, *)
(* so `"error" in result` is "error" \in DOMAIN result and                 *)
(* result.get(k, d) is Get(result, k, d).                                  *)
(* A path is a record: [name |-> n] for a source screenshot and            *)
(* [image_id, tile_index, start, end] for a tile artifact, the four parts  *)
(* of the file name tile_{image_id}_{tile_index}_{start}_{end}.png.        *)
(***************************************************************************)
EXTENDS Integers, Sequences, FiniteSets, TLC

VARIABLES
    files,            \* the paths that exist in storage
    \* ---- frame of tile_image
    t_pc,             \* "idle" | "enter" | "loop" | "done" | "raised"
    image,            \* the image being split: [path, width, height, readable]
    tile_height,      \* argument tile_height
    overlap,          \* argument overlap
    image_id,         \* the uuid token drawn for this split
    y_offset,         \* local y_offset
    tile_index,       \* local tile_index
    tiles,            \* local tiles (the return value when t_pc = "done")
    \* ---- frame of analyze_tiled_image and combine_tile_results
    a_pc,             \* "idle" | "check" | "loop" | "done" | "raised" | "combine" | "combined"
                      \* | "combined again"
    baseline_tiles,   \* argument baseline_tiles (the caller's list of the same name)
    current_tiles,    \* argument current_tiles (the caller's list of the same name)
    tile_results,     \* local tile_results, the argument of combine_tile_results
    adapter_calls,    \* the calls the analyzer has received, in order, each with
                      \* what it produced
    combined_result,  \* the dict combine_tile_results returned
    \* ---- frame of compare_with_claude_auto_tiling
    pc,               \* "idle" | "start" | "tile_baseline" | "tile_current" | "analyze"
                      \* | "finally" | "returned"
    baseline_image,   \* the image at baseline_path
    current_image,    \* the image at current_path
    analysis,         \* the dict the call returns
    cleanup_errors,   \* deletions that raised inside cleanup_tiles (its error_count)
    \* ---- frame of a call of needs_tiling or cleanup_tiles on its own
    h_pc,             \* "idle" | "needs_tiling" | "estimate" | "settings" | "returned"
                      \* | "cleanup" | "cleaned" | "cleaned again" | "config"
    h_args,           \* the arguments of the call
    h_result,         \* what the call returned, or its counters when it returns None
    unlink_failed,    \* the paths whose deletion raised during the last cleanup_tiles
    \* ---- the model configuration file and the class-level cache of ScreenshotMonitor
    config_file,      \* the file models.json: [exists, content, mtime]
    config_cache,     \* ScreenshotMonitor._config_cache, keyed by file path
    config_file_timestamps  \* ScreenshotMonitor._config_file_timestamps, keyed by file path

tileVars == <<t_pc, image, tile_height, overlap, image_id, y_offset, tile_index, tiles>>
analyzeVars == <<a_pc, tile_results, adapter_calls, combined_result>>
listVars == <<baseline_tiles, current_tiles>>
compareVars == <<pc, baseline_image, current_image, analysis, cleanup_errors>>
configVars == <<config_file, config_cache, config_file_timestamps>>
helperVars == <<h_pc, h_args, h_result, unlink_failed, configVars>>
vars == <<files, tileVars, analyzeVars, listVars, compareVars, helperVars>>

----------------------------------------------------------------------------
\* Bounds of the model.
MaxHeight == 9        \* tile_image alone: image heights 1..MaxHeight
MaxTileHeight == 5    \* tile_image alone: tile_height 1..MaxTileHeight
MaxOverlap == 3       \* tile_image alone: overlap 0..MaxOverlap
MaxTiles == 3         \* analyze_tiled_image alone: lists of 0..MaxTiles tiles
MaxResults == 3       \* combine_tile_results alone: 0..MaxResults per-tile results
MaxFullTiles == 2     \* whole comparison: image heights up to (MaxFullTiles + 1) * 3000
MaxPaths == 3         \* cleanup_tiles alone: lists of 0..MaxPaths paths
MaxBelowZero == 2     \* tile_image with any integers: tile_height -MaxBelowZero..MaxTileHeight
MaxOverlapBelowZero == 1  \* tile_image with any integers: overlap -MaxOverlapBelowZero..MaxOverlap
MaxModifications == 2 \* configuration cache: the file is written at most MaxModifications times

\* line 123: sample values of the 8-hex-digit uuid prefix
ImageIds == {"1b9d6bcd", "f47ac10b"}

Min(a, b) == IF a <= b THEN a ELSE b

SourcePath(n) == [name |-> n]
IsTileArtifact(p) == "image_id" \in DOMAIN p

----------------------------------------------------------------------------
\* tile_image (src/image_tiling.py:85-160)

\* line 111: the image is returned as its own single tile
IsSingleTileStrict(height, th) == height < th
IsSingleTile(height, th) == height <= th

\* lines 134-138: end row of the tile that starts at row y
TileEndYNoClamp(y, th, ov, height) == y + th
TileEndYNoOverlap(y, th, ov, height) == Min(y + th, height)
TileEndY(y, th, ov, height) ==
    LET tile_end_y == Min(y + th, height)
    IN  IF tile_end_y < height THEN Min(tile_end_y + ov, height) ELSE tile_end_y

\* line 153: start row of the next tile
NextOffsetAfterOverlap(y, th, ov) == y + th + ov
NextOffset(y, th, ov) == y + th

\* lines 144-145: the path of the tile
TilePath(id, index, start, end) ==
    [image_id |-> id, tile_index |-> index, start |-> start, end |-> end]

\* lines 109-125: read the dimensions, return the image itself when it is not
\* taller than tile_height, else draw the uuid token and start the loop
TileEnter ==
    /\ t_pc = "enter"
    /\ IF ~image.readable
         THEN /\ t_pc' = "raised"
              /\ UNCHANGED <<image_id, y_offset, tile_index, tiles>>
         ELSE IF IsSingleTile(image.height, tile_height)
                THEN /\ t_pc' = "done"
                     /\ tiles' = <<image.path>>
                     /\ UNCHANGED <<image_id, y_offset, tile_index>>
                ELSE /\ t_pc' = "loop"
                     /\ \E id \in ImageIds : image_id' = id
                     /\ y_offset' = 0
                     /\ tile_index' = 0
                     /\ tiles' = <<>>
    /\ UNCHANGED <<files, image, tile_height, overlap>>
    /\ UNCHANGED <<analyzeVars, listVars, compareVars>>
    /\ UNCHANGED helperVars

\* lines 131-154: one iteration of the loop, the tile is cropped and saved
TileLoop ==
    /\ t_pc = "loop"
    /\ y_offset < image.height
    /\ LET tile_start_y == y_offset
           tile_end_y == TileEndY(y_offset, tile_height, overlap, image.height)
           tile_path == TilePath(image_id, tile_index, tile_start_y, tile_end_y)
       IN  /\ files' = files \cup {tile_path}
           /\ tiles' = Append(tiles, tile_path)
    /\ y_offset' = NextOffset(y_offset, tile_height, overlap)
    /\ tile_index' = tile_index + 1
    /\ UNCHANGED <<t_pc, image, tile_height, overlap, image_id>>
    /\ UNCHANGED <<analyzeVars, listVars, compareVars>>
    /\ UNCHANGED helperVars

\* lines 141-146, 159-160: crop or save raises; the tiles written so far stay
\* in storage and the local list is lost with the frame
TileSaveFails ==
    /\ t_pc = "loop"
    /\ y_offset < image.height
    /\ t_pc' = "raised"
    /\ tiles' = <<>>
    /\ UNCHANGED <<files, image, tile_height, overlap, image_id, y_offset, tile_index>>
    /\ UNCHANGED <<analyzeVars, listVars, compareVars>>
    /\ UNCHANGED helperVars

\* lines 131, 156-157: the loop ends and the list is returned
TileReturn ==
    /\ t_pc = "loop"
    /\ y_offset >= image.height
    /\ t_pc' = "done"
    /\ UNCHANGED <<files, image, tile_height, overlap, image_id, y_offset, tile_index, tiles>>
    /\ UNCHANGED <<analyzeVars, listVars, compareVars>>
    /\ UNCHANGED helperVars

----------------------------------------------------------------------------
\* the frames that are not running
NoImage == [path |-> SourcePath("none"), width |-> 0, height |-> 0, readable |-> FALSE]
EmptyDict == <<>>

TileIdle ==
    /\ t_pc = "idle"
    /\ image = NoImage
    /\ tile_height = 0
    /\ overlap = 0
    /\ image_id = "none"
    /\ y_offset = 0
    /\ tile_index = 0
    /\ tiles = <<>>

AnalyzeIdle ==
    /\ a_pc = "idle"
    /\ baseline_tiles = <<>>
    /\ current_tiles = <<>>
    /\ tile_results = <<>>
    /\ adapter_calls = <<>>
    /\ combined_result = EmptyDict

CompareIdle ==
    /\ pc = "idle"
    /\ baseline_image = NoImage
    /\ current_image = NoImage
    /\ analysis = EmptyDict
    /\ cleanup_errors = 0

\* no configuration file is looked at
ConfigIdle ==
    /\ config_file = [exists |-> FALSE]
    /\ config_cache = EmptyDict
    /\ config_file_timestamps = EmptyDict

HelperIdle ==
    /\ h_pc = "idle"
    /\ h_args = EmptyDict
    /\ h_result = EmptyDict
    /\ unlink_failed = {}
    /\ ConfigIdle

\* tile_image called on its own with every height, tile_height and overlap
\* within the bounds.
InitTile ==
    /\ t_pc = "enter"
    /\ \E h \in 1..MaxHeight, r \in BOOLEAN :
          image = [path |-> SourcePath("image"), width |-> 1, height |-> h, readable |-> r]
    /\ tile_height \in 1..MaxTileHeight
    /\ overlap \in 0..MaxOverlap
    /\ image_id = "none"
    /\ y_offset = 0
    /\ tile_index = 0
    /\ tiles = <<>>
    /\ files = {SourcePath("image")}
    /\ AnalyzeIdle
    /\ CompareIdle
    /\ HelperIdle

NextTile == TileEnter \/ TileLoop \/ TileSaveFails \/ TileReturn

SpecTile == InitTile /\ [][NextTile]_vars

\* row range of a returned tile: a source image returned as its own tile
\* spans the whole image
RowStart(p) == IF IsTileArtifact(p) THEN p.start ELSE 0
RowEnd(p) == IF IsTileArtifact(p) THEN p.end ELSE image.height

----------------------------------------------------------------------------
\* Properties of tile_image.

Returned == t_pc = "done"
RowLength(p) == RowEnd(p) - RowStart(p)

\* C1: tile coverage. When tile_image returns for 1 <= tile_height < height
\* and overlap >= 0, every row of [0, height) lies in some tile, every
\* non-final tile is between tile_height and tile_height + overlap rows long,
\* and the final tile ends exactly at row height.
TileCoverage ==
    (Returned /\ 1 <= tile_height /\ tile_height < image.height /\ overlap >= 0) =>
        /\ Len(tiles) >= 1
        /\ \A r \in 0..(image.height - 1) :
              \E i \in 1..Len(tiles) : RowStart(tiles[i]) <= r /\ r < RowEnd(tiles[i])
        /\ \A i \in 1..(Len(tiles) - 1) :
              /\ tile_height <= RowLength(tiles[i])
              /\ RowLength(tiles[i]) <= tile_height + overlap
        /\ RowEnd(tiles[Len(tiles)]) = image.height

\* a split into three or more tiles with a positive overlap has returned
TileCoverageWitness ==
    /\ Returned
    /\ tile_height < image.height
    /\ overlap > 0
    /\ Len(tiles) >= 3

\* C2: tile count. tile_image returns exactly ceil(height / tile_height)
\* tiles whatever the overlap (the least n with n * tile_height >= height),
\* and tile i (0-based) starts at row i * tile_height.
TileCount ==
    Returned =>
        /\ Len(tiles) * tile_height >= image.height
        /\ (Len(tiles) - 1) * tile_height < image.height
        /\ \A i \in 1..Len(tiles) : RowStart(tiles[i]) = (i - 1) * tile_height

\* a split whose overlap reaches past the start of the tile after the next
\* one, and whose height is no multiple of tile_height, has returned
TileCountWitness ==
    /\ Returned
    /\ Len(tiles) >= 3
    /\ overlap > tile_height
    /\ Len(tiles) * tile_height > image.height

\* C3 as stated: every two consecutive tiles of one split share exactly
\* `overlap` rows, the last two tiles included.
OverlapBandExact ==
    Returned =>
        \A i \in 1..(Len(tiles) - 1) :
            RowEnd(tiles[i]) - RowStart(tiles[i + 1]) = overlap

\* C3 as amended: every two consecutive tiles i and i+1 share
\* min(overlap, height - start_(i+1)) rows: exactly `overlap` rows when that
\* many rows remain below the start of tile i+1, else all the remaining rows.
OverlapBandCapped ==
    Returned =>
        \A i \in 1..(Len(tiles) - 1) :
            RowEnd(tiles[i]) - RowStart(tiles[i + 1])
                = Min(overlap, image.height - RowStart(tiles[i + 1]))

\* a split has returned whose first two tiles share the full overlap and
\* whose last two tiles share fewer rows than the overlap
OverlapBandWitness ==
    /\ Returned
    /\ Len(tiles) >= 3
    /\ overlap > 0
    /\ RowEnd(tiles[1]) - RowStart(tiles[2]) = overlap
    /\ RowEnd(tiles[Len(tiles) - 1]) - RowStart(tiles[Len(tiles)]) < overlap

\* C4: single-tile passthrough. When height <= tile_height, tile_image
\* returns exactly one tile, the image itself, spanning [0, height), and no
\* tile artifact has been written.
SingleTilePassthrough ==
    (Returned /\ image.height <= tile_height) =>
        /\ Len(tiles) = 1
        /\ tiles[1] = image.path
        /\ RowStart(tiles[1]) = 0
        /\ RowEnd(tiles[1]) = image.height
        /\ \A p \in files : ~IsTileArtifact(p)
        /\ image.path \in files

\* the boundary case height = tile_height has returned
SingleTilePassthroughWitness ==
    /\ Returned
    /\ image.height = tile_height
    /\ Len(tiles) = 1

----------------------------------------------------------------------------
\* combine_tile_results (src/image_tiling.py:234-351)

\* dict.get(key, default)
Get(d, key, default) == IF key \in DOMAIN d THEN d[key] ELSE default

Range(seq) == {seq[i] : i \in 1..Len(seq)}

\* lines 258-265: severity hierarchy for escalation
SeverityLevels ==
    [none |-> 0, minor |-> 1, moderate |-> 2, major |-> 3, critical |-> 4, unknown |-> 5]

\* line 287: severity_levels.get(severity, 0)
SeverityLevel(severity) == Get(SeverityLevels, severity, 0)

\* line 286: the severity of one tile
TileSeverityDefaultNone(result) == Get(result, "severity", "none")
TileSeverity(result) == Get(result, "severity", "unknown")

\* lines 269, 285-288: the highest severity, the first seen kept on a tie
RECURSIVE MaxSeverityLastWins(_, _)
MaxSeverityLastWins(results, max_severity) ==
    IF results = <<>> THEN max_severity
    ELSE MaxSeverityLastWins(Tail(results), TileSeverity(Head(results)))
RECURSIVE MaxSeverity(_, _)
MaxSeverity(results, max_severity) ==
    IF results = <<>> THEN max_severity
    ELSE LET tile_severity == TileSeverity(Head(results))
         IN  MaxSeverity(Tail(results),
                 IF SeverityLevel(tile_severity) > SeverityLevel(max_severity)
                   THEN tile_severity ELSE max_severity)

\* lines 246-249, 269, 285-288, 341: the severity of the combined result
CombinedSeverity(results) ==
    IF results = <<>> THEN "none" ELSE MaxSeverity(results, "none")

\* lines 268, 282-283: has_any_changes
HasAnyChangesDefaultTrue(results) ==
    \E i \in 1..Len(results) : Get(results[i], "has_changes", TRUE)
HasAnyChanges(results) ==
    \E i \in 1..Len(results) : Get(results[i], "has_changes", FALSE)

\* lines 272, 277-278: error_count
ErrorCount(results) ==
    Cardinality({i \in 1..Len(results) : "error" \in DOMAIN results[i]})

\* line 299: the text "Tile {tile_index + 1}: {original_location}"
LocationTextZeroBased(number, original_location) ==
    <<"Tile ", number - 1, ": ", original_location>>
LocationText(number, original_location) == <<"Tile ", number, ": ", original_location>>

\* lines 291-300: the changes of tile i (0-based), each a copy with its
\* location rewritten
TileChanges(result, i) ==
    LET tile_changes == Get(result, "changes_detected", <<>>)
        tile_info == Get(result, "tile_info", EmptyDict)
        index == Get(tile_info, "tile_index", i)
    IN  [j \in 1..Len(tile_changes) |->
            ("location" :> LocationText(index + 1, Get(tile_changes[j], "location", "")))
                @@ tile_changes[j]]

\* lines 270, 275, 291-300: all_changes, in tile order
RECURSIVE AllChanges(_, _)
AllChanges(results, i) ==
    IF i > Len(results) THEN <<>>
    ELSE TileChanges(results[i], i - 1) \o AllChanges(results, i + 1)

\* lines 271, 303-304: all_recommendations, the recommendation lists of the
\* tiles one after the other
RECURSIVE AllRecommendations(_)
AllRecommendations(results) ==
    IF results = <<>> THEN <<>>
    ELSE Get(Head(results), "recommendations", <<>>) \o AllRecommendations(Tail(results))

\* the number of times value occurs in list
Occurrences(list, value) == Cardinality({i \in 1..Len(list) : list[i] = value})

\* line 337: list(set(all_recommendations)). The order of the resulting list
\* is not determined, so the list is given by the number of times each
\* string occurs in it.
DeduplicateKeepsCopies(list) == [r \in Range(list) |-> Occurrences(list, r)]
Deduplicate(list) == [r \in Range(list) |-> 1]

\* lines 271, 303-304, 337: unique_recommendations
UniqueRecommendations(results) == Deduplicate(AllRecommendations(results))

\* lines 273, 307-309: the availability values that are present and not empty
AvailabilityStatuses(results) ==
    {Get(results[i], "availability_status", "") : i \in 1..Len(results)} \ {""}

\* lines 312-321: overall availability
OverallAvailabilityErrorFirst(statuses) ==
    IF statuses = {} THEN "unknown"
    ELSE IF "error" \in statuses THEN "error"
    ELSE IF "unavailable" \in statuses THEN "unavailable"
    ELSE IF "partially_available" \in statuses THEN "partially_available"
    ELSE "available"
OverallAvailability(statuses) ==
    IF statuses = {} THEN "unknown"
    ELSE IF "unavailable" \in statuses THEN "unavailable"
    ELSE IF "partially_available" \in statuses THEN "partially_available"
    ELSE IF "error" \in statuses THEN "error"
    ELSE "available"

\* lines 324-334: the summary text, as its parts
SummaryText(tile_count, has_any_changes, change_count, error_count) ==
    [tiles |-> tile_count,
     found |-> IF has_any_changes THEN "changes" ELSE "no changes",
     changes |-> IF has_any_changes THEN change_count ELSE 0,
     errors |-> error_count]

\* lines 246-255: the result for an empty list
EmptyResultAvailable ==
    [has_changes |-> FALSE,
     severity |-> "none",
     summary |-> [text |-> "No tiles to analyze"],
     changes_detected |-> <<>>,
     availability_status |-> "available",
     recommendations |-> <<>>,
     tile_count |-> 0]
EmptyResult ==
    [has_changes |-> FALSE,
     severity |-> "none",
     summary |-> [text |-> "No tiles to analyze"],
     changes_detected |-> <<>>,
     availability_status |-> "unknown",
     recommendations |-> <<>>,
     tile_count |-> 0]

\* lines 234-351
CombineTileResults(results) ==
    IF results = <<>> THEN EmptyResult
    ELSE LET all_changes == AllChanges(results, 1)
             has_any_changes == HasAnyChanges(results)
             error_count == ErrorCount(results)
         IN  [has_changes |-> has_any_changes,
              severity |-> CombinedSeverity(results),
              summary |-> SummaryText(Len(results), has_any_changes, Len(all_changes), error_count),
              changes_detected |-> all_changes,
              availability_status |-> OverallAvailability(AvailabilityStatuses(results)),
              recommendations |-> UniqueRecommendations(results),
              tile_count |-> Len(results),
              tiles_with_errors |-> error_count]

\* lines 275-300: what the caller's list holds after the call. The loop reads
\* the results, and line 297 writes the prefixed location to change.copy(),
\* never to the change of the input.
InputAfterCombineInPlace(results) ==
    [i \in 1..Len(results) |->
        IF "changes_detected" \in DOMAIN results[i]
          THEN ("changes_detected" :> TileChanges(results[i], i - 1)) @@ results[i]
          ELSE results[i]]
InputAfterCombine(results) == results

\* a call of combine_tile_results on tile_results
Combine ==
    /\ a_pc = "combine"
    /\ combined_result' = CombineTileResults(tile_results)
    /\ tile_results' = InputAfterCombine(tile_results)
    /\ a_pc' = "combined"
    /\ UNCHANGED <<files, tileVars, adapter_calls, listVars, compareVars>>
    /\ UNCHANGED helperVars

\* a second call of combine_tile_results on the list the first call was
\* given
CombineAgain ==
    /\ a_pc = "combined"
    /\ combined_result' = CombineTileResults(tile_results)
    /\ tile_results' = InputAfterCombine(tile_results)
    /\ a_pc' = "combined again"
    /\ UNCHANGED <<files, tileVars, adapter_calls, listVars, compareVars>>
    /\ UNCHANGED helperVars

----------------------------------------------------------------------------
\* analyze_tiled_image (src/image_tiling.py:163-231)

\* What a call of the analyzer's compare_with_claude can produce.
\* src/screenshot_monitor.py:299, 316: the model's JSON, here three samples
NoChangePayload == [has_changes |-> FALSE, severity |-> "none"]
MinorChangePayload == [has_changes |-> TRUE, severity |-> "minor"]
CriticalChangePayload == [has_changes |-> TRUE, severity |-> "critical"]
\* src/screenshot_monitor.py:302-314: the answer could not be parsed
UnparsedPayload == [has_changes |-> TRUE, severity |-> "unknown", raw_response |-> "text"]
\* src/screenshot_monitor.py:318-334: the failure is returned, not raised
ErrorPayload == [error |-> "failure"]

CompareWithClaudeOutcomes ==
    {[raises |-> FALSE, payload |-> p] :
        p \in {NoChangePayload, MinorChangePayload, CriticalChangePayload,
               UnparsedPayload, ErrorPayload}}

\* the three kinds among them: no change, a change, a failure
CompareWithClaudeKinds ==
    {[raises |-> FALSE, payload |-> p] :
        p \in {NoChangePayload, CriticalChangePayload, ErrorPayload}}

\* the analyzer is any object with a compare_with_claude method: besides the
\* above, its call can raise
AnalyzerOutcomes == CompareWithClaudeOutcomes \cup {[raises |-> TRUE]}

\* lines 203-207, 219-223
TileInfo(i, baseline_tile, current_tile) ==
    [tile_index |-> i, baseline_path |-> baseline_tile, current_path |-> current_tile]

\* lines 200-209: the payload with its tile metadata
TaggedResult(payload, i, baseline_tile, current_tile) ==
    ("tile_info" :> TileInfo(i, baseline_tile, current_tile)) @@ payload

\* lines 214-224: the result that stands for a call that raised
ErrorResultNoChanges(i, baseline_tile, current_tile) ==
    [error |-> "failure",
     has_changes |-> FALSE,
     severity |-> "unknown",
     summary |-> <<"Analysis failed for tile ", i>>,
     tile_info |-> TileInfo(i, baseline_tile, current_tile)]
ErrorResult(i, baseline_tile, current_tile) ==
    [error |-> "failure",
     has_changes |-> TRUE,
     severity |-> "unknown",
     summary |-> <<"Analysis failed for tile ", i>>,
     tile_info |-> TileInfo(i, baseline_tile, current_tile)]

\* lines 186-189
TileCountMismatchLenient(baseline, current) == FALSE
TileCountMismatch(baseline, current) == Len(baseline) # Len(current)

\* lines 186-193: the length check
AnalyzeCheck ==
    /\ a_pc = "check"
    /\ IF TileCountMismatch(baseline_tiles, current_tiles)
         THEN a_pc' = "raised"
         ELSE a_pc' = "loop"
    /\ tile_results' = <<>>
    /\ UNCHANGED <<files, tileVars, adapter_calls, combined_result, listVars, compareVars>>
    /\ UNCHANGED helperVars

\* lines 195: the pairs zip() yields
ZipLengthShort(baseline, current) == Min(Len(baseline), Len(current)) - 1
ZipLength(baseline, current) == Min(Len(baseline), Len(current))

\* lines 195-225: one iteration of the loop, the analyzer is called on pair i
AdapterCall(outcomes) ==
    /\ a_pc = "loop"
    /\ Len(tile_results) < ZipLength(baseline_tiles, current_tiles)
    /\ LET i == Len(tile_results)
           baseline_tile == baseline_tiles[i + 1]
           current_tile == current_tiles[i + 1]
       IN  \E outcome \in outcomes :
              /\ adapter_calls' = Append(adapter_calls,
                     [baseline |-> baseline_tile, current |-> current_tile,
                      outcome |-> outcome])
              /\ tile_results' = Append(tile_results,
                     IF outcome.raises
                       THEN ErrorResult(i, baseline_tile, current_tile)
                       ELSE TaggedResult(outcome.payload, i, baseline_tile, current_tile))
    /\ UNCHANGED <<files, tileVars, a_pc, combined_result, listVars, compareVars>>
    /\ UNCHANGED helperVars

\* lines 227-231: the loop has ended, the results are combined and returned
AnalyzeCombine ==
    /\ a_pc = "loop"
    /\ Len(tile_results) >= ZipLength(baseline_tiles, current_tiles)
    /\ combined_result' = CombineTileResults(tile_results)
    /\ a_pc' = "done"
    /\ UNCHANGED <<files, tileVars, tile_results, adapter_calls, listVars, compareVars>>
    /\ UNCHANGED helperVars

----------------------------------------------------------------------------
\* analyze_tiled_image called on its own with every pair of tile lists
\* within the bounds and every analyzer behaviour.

\* a list of n tile paths of one split
SampleTiles(id, n) == [k \in 1..n |-> TilePath(id, k - 1, k - 1, k)]

InitAnalyze ==
    /\ a_pc = "check"
    /\ \E n \in 0..MaxTiles : baseline_tiles = SampleTiles("1b9d6bcd", n)
    /\ \E n \in 0..MaxTiles : current_tiles = SampleTiles("f47ac10b", n)
    /\ tile_results = <<>>
    /\ adapter_calls = <<>>
    /\ combined_result = EmptyDict
    /\ files = Range(baseline_tiles) \cup Range(current_tiles)
    /\ TileIdle
    /\ CompareIdle
    /\ HelperIdle

NextAnalyze == AnalyzeCheck \/ AdapterCall(AnalyzerOutcomes) \/ AnalyzeCombine

SpecAnalyze == InitAnalyze /\ [][NextAnalyze]_vars

----------------------------------------------------------------------------
\* Properties of analyze_tiled_image.

AnalyzeReturned == a_pc = "done"

\* the analyzer's call number i (1-based) failed: it raised or it returned
\* its failure as an error payload
CallFailed(i) ==
    \/ adapter_calls[i].outcome.raises
    \/ "error" \in DOMAIN adapter_calls[i].outcome.payload

CallRaised(i) == adapter_calls[i].outcome.raises

\* the analyzer's call number i succeeded and reported no change
CallSucceededNoChanges(i) ==
    /\ ~adapter_calls[i].outcome.raises
    /\ adapter_calls[i].outcome.payload = NoChangePayload

\* C5: error isolation. When the call for exactly one tile fails (raised, or
\* returned as an error payload) and every other tile succeeds with no
\* changes, the combined result has has_changes = true, tiles_with_errors = 1
\* and tile_count equal to the number of tiles.
ErrorIsolation ==
    (/\ AnalyzeReturned
     /\ \E k \in 1..Len(adapter_calls) :
           /\ CallFailed(k)
           /\ \A i \in 1..Len(adapter_calls) : i # k => CallSucceededNoChanges(i))
    => /\ combined_result.has_changes = TRUE
       /\ combined_result.tiles_with_errors = 1
       /\ combined_result.tile_count = Len(baseline_tiles)

\* C6: a failing call does not abort the batch. For lists of equal length N
\* the analyzer is called once per pair in index order, the results are
\* appended in that order, each tagged with its 0-based index, a call that
\* raised leaves has_changes = true, severity = unknown and an error
\* indicator, and the batch returns only after all N calls, never raising.
BatchNotAborted ==
    (Len(baseline_tiles) = Len(current_tiles)) =>
        /\ a_pc # "raised"
        /\ Len(adapter_calls) = Len(tile_results)
        /\ Len(adapter_calls) <= Len(baseline_tiles)
        /\ AnalyzeReturned =>
              /\ Len(adapter_calls) = Len(baseline_tiles)
              /\ combined_result.tile_count = Len(baseline_tiles)
        /\ \A i \in 1..Len(adapter_calls) :
              /\ adapter_calls[i].baseline = baseline_tiles[i]
              /\ adapter_calls[i].current = current_tiles[i]
              /\ tile_results[i].tile_info.tile_index = i - 1
              /\ CallRaised(i) =>
                    /\ tile_results[i].has_changes = TRUE
                    /\ tile_results[i].severity = "unknown"
                    /\ "error" \in DOMAIN tile_results[i]

\* a batch of three has returned whose first call raised and whose later
\* calls returned payloads
BatchNotAbortedWitness ==
    /\ AnalyzeReturned
    /\ Len(adapter_calls) = 3
    /\ CallRaised(1)
    /\ ~CallRaised(2)
    /\ ~CallRaised(3)

\* C7: mismatch rejection. When the two lists differ in length the call
\* raises at its length check: the analyzer is never called, no per-tile
\* result and no combined result exist, and the loop is never entered.
MismatchRejected ==
    (Len(baseline_tiles) # Len(current_tiles)) =>
        /\ a_pc \in {"check", "raised"}
        /\ adapter_calls = <<>>
        /\ tile_results = <<>>
        /\ combined_result = EmptyDict

\* the call on 3 baseline tiles and 2 current tiles has raised
MismatchRejectedWitness ==
    /\ a_pc = "raised"
    /\ Len(baseline_tiles) = 3
    /\ Len(current_tiles) = 2

----------------------------------------------------------------------------
\* combine_tile_results called on its own with every list of per-tile
\* results within the bounds.

\* the values a result's severity takes here: the six of the hierarchy, one
\* that is not in it, and "absent" for a result with no severity key
SeverityInputs ==
    {"absent", "none", "minor", "moderate", "major", "critical", "unknown", "bogus"}

\* the per-tile result with the given keys; has_changes is "true", "false",
\* or "absent" for a result with no such key
MakeResult(severity, changes) ==
    [key \in (IF severity = "absent" THEN {} ELSE {"severity"})
             \cup (IF changes = "absent" THEN {} ELSE {"has_changes"}) |->
        IF key = "severity" THEN severity ELSE changes = "true"]

\* the has_changes an analysis of that severity usually carries
UsualChanges(severity) ==
    IF severity \in {"absent", "bogus"} THEN "absent"
    ELSE IF severity = "none" THEN "false" ELSE "true"

\* sample per-tile results: one of every severity, and two whose has_changes
\* disagrees with their severity
ResultInputs ==
    {MakeResult(s, UsualChanges(s)) : s \in SeverityInputs}
    \cup {MakeResult("none", "true"), MakeResult("critical", "false")}

\* three changes a tile reports, the last one with no location
ChangeHeader == [type |-> "layout", location |-> "header"]
ChangeFooter == [type |-> "content", location |-> "footer"]
ChangeNoLocation == [type |-> "error"]

\* sample per-tile results with changes, recommendations and availability:
\* every availability value the precedence names, the value "unknown", the
\* empty value, recommendations repeated within and across tiles, and
\* results that carry an error
DetailedInputs ==
    {[has_changes |-> FALSE, severity |-> "none", changes_detected |-> <<>>,
      availability_status |-> "available", recommendations |-> <<"monitor">>],
     [has_changes |-> TRUE, severity |-> "minor",
      changes_detected |-> <<ChangeHeader, ChangeFooter>>,
      availability_status |-> "partially_available",
      recommendations |-> <<"monitor", "investigate">>],
     [has_changes |-> TRUE, severity |-> "major",
      changes_detected |-> <<ChangeNoLocation>>,
      availability_status |-> "unavailable",
      recommendations |-> <<"investigate", "investigate">>],
     [error |-> "failure", availability_status |-> "error"],
     [has_changes |-> FALSE, severity |-> "none",
      availability_status |-> "unknown", recommendations |-> <<>>],
     [error |-> "failure", has_changes |-> TRUE, severity |-> "unknown",
      availability_status |-> ""]}

InitCombine ==
    /\ a_pc = "combine"
    /\ \E n \in 0..MaxResults : tile_results \in [1..n -> ResultInputs \cup DetailedInputs]
    /\ baseline_tiles = <<>>
    /\ current_tiles = <<>>
    /\ adapter_calls = <<>>
    /\ combined_result = EmptyDict
    /\ files = {}
    /\ TileIdle
    /\ CompareIdle
    /\ HelperIdle

NextCombine == Combine \/ CombineAgain

SpecCombine == InitCombine /\ [][NextCombine]_vars

----------------------------------------------------------------------------
\* Properties of combine_tile_results.

Combined == a_pc = "combined"

\* the order none < minor < moderate < major < critical < unknown
SeverityOrder == <<"none", "minor", "moderate", "major", "critical", "unknown">>
InOrder(severity) == severity \in Range(SeverityOrder)
Rank(severity) == CHOOSE r \in 1..Len(SeverityOrder) : SeverityOrder[r] = severity

\* the permutations of the positions of a list of n results
PermutationsOf == [n \in 0..MaxResults |-> Permutations(1..n)]

\* the list in the order given by the permutation
Permuted(results, perm) == [i \in 1..Len(results) |-> results[perm[i]]]

\* C9: severity monotonicity. The combined severity is the same for every
\* permutation of the per-tile results, and it is never lower than the
\* severity of any input under none < minor < moderate < major < critical
\* < unknown.
SeverityMonotonic ==
    Combined =>
        /\ \A perm \in PermutationsOf[Len(tile_results)] :
              CombinedSeverity(Permuted(tile_results, perm)) = combined_result.severity
        /\ InOrder(combined_result.severity)
        /\ \A i \in 1..Len(tile_results) :
              ("severity" \in DOMAIN tile_results[i] /\ InOrder(tile_results[i].severity))
                  => Rank(combined_result.severity) >= Rank(tile_results[i].severity)

\* three results of three different severities, the highest not last, have
\* been combined to the highest
SeverityMonotonicWitness ==
    /\ Combined
    /\ Len(tile_results) = 3
    /\ tile_results[1] = MakeResult("minor", "true")
    /\ tile_results[2] = MakeResult("major", "true")
    /\ tile_results[3] = MakeResult("moderate", "true")
    /\ combined_result.severity = "major"

\* C10: unknown outranks critical. When some per-tile result has severity
\* unknown, or has no severity key at all, the combined severity is unknown,
\* whatever the other tiles report.
UnknownOutranksCritical ==
    (/\ Combined
     /\ \E i \in 1..Len(tile_results) :
           \/ "severity" \notin DOMAIN tile_results[i]
           \/ tile_results[i].severity = "unknown")
    => combined_result.severity = "unknown"

\* a result with no severity key has been combined with a later critical one
UnknownOutranksCriticalWitness ==
    /\ Combined
    /\ Len(tile_results) = 2
    /\ "severity" \notin DOMAIN tile_results[1]
    /\ tile_results[2] = MakeResult("critical", "true")
    /\ combined_result.severity = "unknown"

\* the change list result i (1-based) carries
InputChanges(i) == Get(tile_results[i], "changes_detected", <<>>)

\* the number of changes carried by the results before result i
RECURSIVE ChangesBefore(_)
ChangesBefore(i) == IF i <= 1 THEN 0 ELSE ChangesBefore(i - 1) + Len(InputChanges(i - 1))

\* C11: change count conservation. The combined change list is the
\* concatenation, in tile order, of the per-tile change lists: its length is
\* the sum of their lengths, and the change at place j of tile i (0-based
\* index i - 1) stands at place ChangesBefore(i) + j with every key but the
\* location as it was and the location "Tile {i}: " + original location,
\* the original location being empty when the change has none.
ChangeConservation ==
    Combined =>
        LET combined == combined_result.changes_detected
            n == Len(tile_results)
        IN  /\ Len(combined) = ChangesBefore(n + 1)
            /\ \A i \in 1..n : \A j \in 1..Len(InputChanges(i)) :
                  LET change == InputChanges(i)[j]
                      out == combined[ChangesBefore(i) + j]
                  IN  /\ DOMAIN out = DOMAIN change \cup {"location"}
                      /\ out.location =
                            <<"Tile ", i, ": ",
                              IF "location" \in DOMAIN change THEN change.location ELSE "">>
                      /\ \A key \in DOMAIN change \ {"location"} : out[key] = change[key]

\* a combination of three results: the first without changes, the second with
\* two located changes, the third with a change that has no location
ChangeConservationWitness ==
    /\ Combined
    /\ Len(tile_results) = 3
    /\ InputChanges(1) = <<>>
    /\ InputChanges(2) = <<ChangeHeader, ChangeFooter>>
    /\ InputChanges(3) = <<ChangeNoLocation>>
    /\ Len(combined_result.changes_detected) = 3
    /\ combined_result.changes_detected[3].location = <<"Tile ", 3, ": ", "">>

\* the availability values of the results that are present and not empty
ReportedAvailability(results) ==
    {results[i].availability_status :
        i \in {k \in 1..Len(results) : "availability_status" \in DOMAIN results[k]}} \ {""}

\* C12: availability precedence. With S the set of non-empty availability
\* values of the per-tile results, the overall availability is "unknown" when
\* S is empty, else "unavailable" when S holds it, else "partially_available"
\* when S holds it, else "error" when S holds it, else "available"; and it is
\* the same for every order of the per-tile results.
AvailabilityPrecedence ==
    Combined =>
        LET S == ReportedAvailability(tile_results)
            overall == combined_result.availability_status
        IN  /\ (S = {}) => overall = "unknown"
            /\ (S # {} /\ "unavailable" \in S) => overall = "unavailable"
            /\ (S # {} /\ "unavailable" \notin S /\ "partially_available" \in S) =>
                  overall = "partially_available"
            /\ (S # {} /\ {"unavailable", "partially_available"} \cap S = {} /\ "error" \in S) =>
                  overall = "error"
            /\ (S # {} /\ {"unavailable", "partially_available", "error"} \cap S = {}) =>
                  overall = "available"
            /\ \A perm \in PermutationsOf[Len(tile_results)] :
                  CombineTileResults(Permuted(tile_results, perm)).availability_status = overall

\* a combination in which a tile reporting "error" comes before one reporting
\* "partially_available" and none reports "unavailable"
AvailabilityPrecedenceWitness ==
    /\ Combined
    /\ Len(tile_results) = 3
    /\ Get(tile_results[1], "availability_status", "") = "error"
    /\ Get(tile_results[2], "availability_status", "") = "available"
    /\ Get(tile_results[3], "availability_status", "") = "partially_available"
    /\ combined_result.availability_status = "partially_available"

\* C13: the combined has_changes is true iff some per-tile result has
\* has_changes true, a result without the key counting as false.
HasChangesDisjunction ==
    Combined =>
        (combined_result.has_changes = TRUE <=>
            \E i \in 1..Len(tile_results) :
                /\ "has_changes" \in DOMAIN tile_results[i]
                /\ tile_results[i].has_changes = TRUE)

\* a combination of results none of which has has_changes true and one of
\* which has no has_changes key
HasChangesDisjunctionWitness ==
    /\ Combined
    /\ Len(tile_results) = 3
    /\ "has_changes" \notin DOMAIN tile_results[2]
    /\ \A i \in {1, 3} : Get(tile_results[i], "has_changes", TRUE) = FALSE
    /\ combined_result.has_changes = FALSE

\* C14: for every input, the empty one included, the combined result carries
\* tile_count, the number of per-tile results, and tiles_with_errors, the
\* number of per-tile results that carry an error.
CountsCarried ==
    Combined =>
        /\ "tile_count" \in DOMAIN combined_result
        /\ combined_result.tile_count = Len(tile_results)
        /\ "tiles_with_errors" \in DOMAIN combined_result
        /\ combined_result.tiles_with_errors =
              Cardinality({i \in 1..Len(tile_results) : "error" \in DOMAIN tile_results[i]})

\* C15: empty input. The result for the empty list has has_changes false,
\* severity "none", availability "unknown", tile_count 0, an empty change
\* list and an empty recommendation list.
EmptySentinel ==
    (Combined /\ tile_results = <<>>) =>
        /\ combined_result.has_changes = FALSE
        /\ combined_result.severity = "none"
        /\ combined_result.availability_status = "unknown"
        /\ combined_result.tile_count = 0
        /\ Len(combined_result.changes_detected) = 0
        /\ DOMAIN combined_result.recommendations = {}

\* the empty list has been combined
EmptySentinelWitness ==
    /\ Combined
    /\ tile_results = <<>>
    /\ "summary" \in DOMAIN combined_result

\* the recommendations the results carry
InputRecommendations ==
    UNION {Range(tile_results[i].recommendations) :
        i \in {k \in 1..Len(tile_results) : "recommendations" \in DOMAIN tile_results[k]}}

\* C16: recommendation deduplication. The combined recommendations hold
\* every distinct recommendation of the per-tile results exactly once and
\* nothing else.
RecommendationsUnique ==
    Combined =>
        /\ DOMAIN combined_result.recommendations = InputRecommendations
        /\ \A r \in InputRecommendations : combined_result.recommendations[r] = 1

\* a combination in which one recommendation is repeated within a tile and
\* another across two tiles
RecommendationsUniqueWitness ==
    /\ Combined
    /\ Len(tile_results) = 3
    /\ Get(tile_results[1], "recommendations", <<>>) = <<"investigate", "investigate">>
    /\ Get(tile_results[2], "recommendations", <<>>) = <<"monitor">>
    /\ Get(tile_results[3], "recommendations", <<>>) = <<"monitor", "investigate">>
    /\ DOMAIN combined_result.recommendations = {"monitor", "investigate"}

AvailableOnlyIfAll ==
    (Combined /\ combined_result.availability_status = "available") =>
        ReportedAvailability(tile_results) \subseteq {"available"}

----------------------------------------------------------------------------
\* cleanup_tiles (src/image_tiling.py:354-381)

\* lines 363-375: the paths are visited in order; one that exists is deleted,
\* unless its deletion raises (the paths in `failing`), which is counted
RECURSIVE CleanupTilesStopsAtFailure(_, _, _, _)
CleanupTilesStopsAtFailure(storage, tile_paths, failing, error_count) ==
    IF tile_paths = <<>> THEN [files |-> storage, error_count |-> error_count]
    ELSE LET tile_path == Head(tile_paths)
         IN  IF tile_path \notin storage
               THEN CleanupTilesStopsAtFailure(storage, Tail(tile_paths), failing, error_count)
               ELSE IF tile_path \in failing
                      THEN [files |-> storage, error_count |-> error_count + 1]
                      ELSE CleanupTilesStopsAtFailure(storage \ {tile_path}, Tail(tile_paths),
                                                      failing, error_count)
RECURSIVE CleanupTiles(_, _, _, _)
CleanupTiles(storage, tile_paths, failing, error_count) ==
    IF tile_paths = <<>> THEN [files |-> storage, error_count |-> error_count]
    ELSE LET tile_path == Head(tile_paths)
         IN  IF tile_path \notin storage
               THEN CleanupTiles(storage, Tail(tile_paths), failing, error_count)
               ELSE IF tile_path \in failing
                      THEN CleanupTiles(storage, Tail(tile_paths), failing, error_count + 1)
                      ELSE CleanupTiles(storage \ {tile_path}, Tail(tile_paths), failing,
                                        error_count)

\* lines 363, 369-371: cleaned_count, one for every path that existed and
\* was deleted
CleanedCountOfPaths(storage, tile_paths, failing) ==
    Len(tile_paths) - CleanupTiles(storage, tile_paths, failing, 0).error_count
CleanedCount(storage, tile_paths, failing) ==
    Cardinality(storage \ CleanupTiles(storage, tile_paths, failing, 0).files)

----------------------------------------------------------------------------
\* ScreenshotMonitor.compare_with_claude_auto_tiling
\* (src/screenshot_monitor.py:336-410)

TILE_HEIGHT == 3000
TILE_OVERLAP == 200
MAX_HEIGHT == 4000
MAX_WIDTH == 4096

\* src/image_tiling.py:33-54: the size of the image, or ImageTilingError when
\* the file cannot be opened or read
GetImageDimensions(img) ==
    IF img.readable
      THEN [raised |-> FALSE, width |-> img.width, height |-> img.height]
      ELSE [raised |-> TRUE]

\* src/image_tiling.py:70-82: needs_tiling with its thresholds given
NeedsTilingInclusive(img, max_height, max_width) ==
    LET dimensions == GetImageDimensions(img)
    IN  IF dimensions.raised THEN FALSE
        ELSE dimensions.height >= max_height \/ dimensions.width >= max_width
NeedsTilingWith(img, max_height, max_width) ==
    LET dimensions == GetImageDimensions(img)
    IN  IF dimensions.raised THEN FALSE
        ELSE dimensions.height > max_height \/ dimensions.width > max_width

\* src/image_tiling.py:57-82: needs_tiling with the default thresholds
NeedsTiling(img) == NeedsTilingWith(img, MAX_HEIGHT, MAX_WIDTH)

\* lines 401-403
ErrorAnalysis == [error |-> "failure", tiling_used |-> FALSE]

\* lines 379-382, 395-397
Dimensions(img) == <<img.width, img.height>>
WithMetadata(result, tiling_used) ==
    [tiling_used |-> tiling_used,
     baseline_dimensions |-> Dimensions(baseline_image),
     current_dimensions |-> Dimensions(current_image)] @@ result

\* the frame of a call tile_image(img, tile_height=3000, overlap=200)
CallTileImage(img) ==
    /\ t_pc' = "enter"
    /\ image' = img
    /\ tile_height' = TILE_HEIGHT
    /\ overlap' = TILE_OVERLAP
    /\ image_id' = "none"
    /\ y_offset' = 0
    /\ tile_index' = 0
    /\ tiles' = <<>>

\* lines 351-367 and 384-399: the tiling decision; either the split of the
\* baseline starts, or the two images are compared directly
CompareStart ==
    /\ pc = "start"
    /\ IF ~baseline_image.readable \/ ~current_image.readable
         THEN \* get_image_dimensions raises at line 361/362 or 386/387
              /\ analysis' = ErrorAnalysis
              /\ pc' = "finally"
              /\ UNCHANGED <<tileVars, adapter_calls>>
         ELSE IF NeedsTiling(baseline_image) \/ NeedsTiling(current_image)
                THEN /\ CallTileImage(baseline_image)
                     /\ pc' = "tile_baseline"
                     /\ UNCHANGED <<analysis, adapter_calls>>
                ELSE /\ \E outcome \in CompareWithClaudeKinds :
                           /\ adapter_calls' = Append(adapter_calls,
                                  [baseline |-> baseline_image.path,
                                   current |-> current_image.path,
                                   outcome |-> outcome])
                           /\ analysis' = WithMetadata(outcome.payload, FALSE)
                     /\ pc' = "finally"
                     /\ UNCHANGED tileVars
    /\ UNCHANGED <<files, a_pc, tile_results, combined_result, listVars,
                   baseline_image, current_image, cleanup_errors>>
    /\ UNCHANGED helperVars

\* line 370: the split of the baseline has returned; line 371 starts the
\* split of the current image
TileBaselineReturn ==
    /\ pc = "tile_baseline"
    /\ t_pc = "done"
    /\ baseline_tiles' = tiles
    /\ CallTileImage(current_image)
    /\ pc' = "tile_current"
    /\ UNCHANGED <<files, analyzeVars, current_tiles, baseline_image, current_image,
                   analysis, cleanup_errors>>
    /\ UNCHANGED helperVars

\* lines 371-376: the split of the current image has returned and
\* analyze_tiled_image is called
TileCurrentReturn ==
    /\ pc = "tile_current"
    /\ t_pc = "done"
    /\ current_tiles' = tiles
    /\ t_pc' = "idle"
    /\ a_pc' = "check"
    /\ pc' = "analyze"
    /\ UNCHANGED <<files, image, tile_height, overlap, image_id, y_offset, tile_index,
                   tiles, tile_results, adapter_calls, combined_result, baseline_tiles,
                   baseline_image, current_image, analysis, cleanup_errors>>
    /\ UNCHANGED helperVars

\* lines 370-371, 401-403: a split has raised ImageTilingError
TileRaised ==
    /\ pc \in {"tile_baseline", "tile_current"}
    /\ t_pc = "raised"
    /\ t_pc' = "idle"
    /\ analysis' = ErrorAnalysis
    /\ pc' = "finally"
    /\ UNCHANGED <<files, image, tile_height, overlap, image_id, y_offset, tile_index,
                   tiles, analyzeVars, listVars, baseline_image, current_image,
                   cleanup_errors>>
    /\ UNCHANGED helperVars

\* lines 376-382, 399: analyze_tiled_image has returned the combined result
AnalyzeReturn ==
    /\ pc = "analyze"
    /\ a_pc = "done"
    /\ analysis' = ("tile_count" :> Len(baseline_tiles))
                       @@ WithMetadata(combined_result, TRUE)
    /\ pc' = "finally"
    /\ UNCHANGED <<files, tileVars, analyzeVars, listVars, baseline_image,
                   current_image, cleanup_errors>>
    /\ UNCHANGED helperVars

\* lines 376, 401-403: analyze_tiled_image has raised
AnalyzeRaised ==
    /\ pc = "analyze"
    /\ a_pc = "raised"
    /\ analysis' = ErrorAnalysis
    /\ pc' = "finally"
    /\ UNCHANGED <<files, tileVars, analyzeVars, listVars, baseline_image,
                   current_image, cleanup_errors>>
    /\ UNCHANGED helperVars

\* the sets of paths whose deletion raises during one call: none, or one path
UnlinkFailures(paths) == {{}} \cup {{p} : p \in paths}

\* lines 405-410: the finally block, then the call returns
Finally ==
    /\ pc = "finally"
    /\ \E failing \in UnlinkFailures(Range(baseline_tiles) \cup Range(current_tiles)) :
          LET first == IF baseline_tiles # <<>>
                         THEN CleanupTiles(files, baseline_tiles, failing, 0)
                         ELSE [files |-> files, error_count |-> 0]
              second == IF current_tiles # <<>>
                          THEN CleanupTiles(first.files, current_tiles, failing, 0)
                          ELSE [files |-> first.files, error_count |-> 0]
          IN  /\ files' = second.files
              /\ cleanup_errors' = first.error_count + second.error_count
    /\ pc' = "returned"
    /\ UNCHANGED <<tileVars, analyzeVars, listVars, baseline_image, current_image, analysis>>
    /\ UNCHANGED helperVars

----------------------------------------------------------------------------
\* One comparison, for every pair of images within the bounds.

\* heights around every multiple of the tile height, and around the limit
CompareHeights ==
    {k * TILE_HEIGHT + r :
        k \in 0..MaxFullTiles,
        r \in {1, TILE_OVERLAP, MAX_HEIGHT - TILE_HEIGHT, MAX_HEIGHT - TILE_HEIGHT + 1,
               TILE_HEIGHT}}

\* a usual viewport width, and one over the limit
CompareWidths == {1920, MAX_WIDTH + 1}

CompareImages(n) ==
    {[path |-> SourcePath(n), width |-> w, height |-> h, readable |-> TRUE] :
        w \in CompareWidths, h \in CompareHeights}
    \cup {[path |-> SourcePath(n), width |-> 0, height |-> 0, readable |-> FALSE]}

InitCompare ==
    /\ pc = "start"
    /\ baseline_image \in CompareImages("baseline")
    /\ current_image \in CompareImages("current")
    /\ analysis = EmptyDict
    /\ cleanup_errors = 0
    /\ files = {SourcePath("baseline"), SourcePath("current")}
    /\ TileIdle
    /\ AnalyzeIdle
    /\ HelperIdle

NextCompare ==
    \/ CompareStart
    \/ TileEnter \/ TileLoop \/ TileSaveFails \/ TileReturn
    \/ TileBaselineReturn \/ TileCurrentReturn \/ TileRaised
    \/ AnalyzeCheck \/ AdapterCall(CompareWithClaudeKinds) \/ AnalyzeCombine
    \/ AnalyzeReturn \/ AnalyzeRaised
    \/ Finally

SpecCompare == InitCompare /\ [][NextCompare]_vars

----------------------------------------------------------------------------
\* Properties of compare_with_claude_auto_tiling.

CompareReturned == pc = "returned"

\* C8: guaranteed release. When a call that entered the tiled branch
\* returns, on any path, and no deletion raised, no tile artifact written
\* during the call is left in storage.
GuaranteedRelease ==
    (CompareReturned /\ cleanup_errors = 0) =>
        \A p \in files : ~IsTileArtifact(p)

\* C21: artifact identifiers are unique across a run. No two tiles written by
\* tile_image have the same identifier, within one split and across the split
\* of the baseline and the split of the current image, so no split
\* overwrites a tile of the other.
ArtifactIdsUnique ==
    /\ \A i, j \in 1..Len(baseline_tiles) : i # j => baseline_tiles[i] # baseline_tiles[j]
    /\ \A i, j \in 1..Len(current_tiles) : i # j => current_tiles[i] # current_tiles[j]
    /\ \A i \in 1..Len(baseline_tiles) : \A j \in 1..Len(current_tiles) :
          (IsTileArtifact(baseline_tiles[i]) /\ IsTileArtifact(current_tiles[j])) =>
              baseline_tiles[i] # current_tiles[j]

\* C24: cleanup after a comparison never deletes a source screenshot. When
\* compare_with_claude_auto_tiling has returned, on every path and for every
\* pair of image sizes, the baseline file and the current file still exist.
SourcesKept ==
    CompareReturned =>
        /\ baseline_image.path \in files
        /\ current_image.path \in files

\* src/image_tiling.py:111-114, 141: the size of a tile of img. A tile is the
\* crop (0, start, width, end), as wide as the image; an image returned as
\* its own tile has its own size.
TileSize(p, img) ==
    [width |-> img.width,
     height |-> IF IsTileArtifact(p) THEN p.end - p.start ELSE img.height]

\* C25: in the tiled branch every image passed to the adapter fits the
\* limits that trigger tiling: its height is <= 4000 and its width is <=
\* 4096, whether tiling was triggered by the height or by the width.
AdapterImagesFit ==
    (pc # "idle" /\ a_pc # "idle") =>
        \A i \in 1..Len(adapter_calls) :
            LET b == TileSize(adapter_calls[i].baseline, baseline_image)
                c == TileSize(adapter_calls[i].current, current_image)
            IN  /\ b.height <= 4000 /\ b.width <= 4096
                /\ c.height <= 4000 /\ c.width <= 4096

SplitterRan == image # NoImage

\* C27: the tiling gate. The splitter runs iff needs_tiling is true for the
\* baseline or for the current image, and then every split is made with
\* the one tile_height and overlap; when neither image needs tiling the
\* adapter is called exactly once, on the two original images, no tile is
\* written and no file is deleted.
TilingGate ==
    LET gate == NeedsTiling(baseline_image) \/ NeedsTiling(current_image)
    IN  /\ pc \notin {"idle", "start"} => (SplitterRan <=> gate)
        /\ SplitterRan => (tile_height = TILE_HEIGHT /\ overlap = TILE_OVERLAP)
        /\ (pc # "idle" /\ ~gate) =>
              /\ files = {baseline_image.path, current_image.path}
              /\ CompareReturned =>
                    /\ Len(adapter_calls) = 1
                    /\ adapter_calls[1].baseline = baseline_image.path
                    /\ adapter_calls[1].current = current_image.path

----------------------------------------------------------------------------
\* needs_tiling called on its own (src/image_tiling.py:57-82)

\* a call of needs_tiling; a threshold that is not passed takes its default
NeedsTilingCall ==
    /\ h_pc = "needs_tiling"
    /\ h_result' = [value |-> NeedsTilingWith(h_args.image,
                                  Get(h_args, "max_height", MAX_HEIGHT),
                                  Get(h_args, "max_width", MAX_WIDTH))]
    /\ h_pc' = "returned"
    /\ UNCHANGED <<files, tileVars, analyzeVars, listVars, compareVars, h_args, unlink_failed, configVars>>

\* heights and widths below, at and above the default thresholds and the
\* thresholds passed
NeedsTilingHeights == {1, TILE_HEIGHT, TILE_HEIGHT + 1, MAX_HEIGHT - 1, MAX_HEIGHT, MAX_HEIGHT + 1}
NeedsTilingWidths == {1, 1920, 1921, MAX_WIDTH - 1, MAX_WIDTH, MAX_WIDTH + 1}

\* the images: each size as a file that can be read and as one that cannot
NeedsTilingImages ==
    {[path |-> SourcePath("image"), width |-> w, height |-> h, readable |-> r] :
        w \in NeedsTilingWidths, h \in NeedsTilingHeights, r \in BOOLEAN}

\* the calls: with the image alone, and with both thresholds passed
NeedsTilingArguments ==
    {[image |-> img] : img \in NeedsTilingImages}
    \cup {[image |-> img, max_height |-> TILE_HEIGHT, max_width |-> 1920] :
            img \in NeedsTilingImages}

InitNeedsTiling ==
    /\ h_pc = "needs_tiling"
    /\ h_args \in NeedsTilingArguments
    /\ h_result = EmptyDict
    /\ unlink_failed = {}
    /\ ConfigIdle
    /\ files = {SourcePath("image")}
    /\ TileIdle
    /\ AnalyzeIdle
    /\ CompareIdle

NextNeedsTiling == NeedsTilingCall

SpecNeedsTiling == InitNeedsTiling /\ [][NextNeedsTiling]_vars

\* C18: needs_tiling returns true iff the dimensions of the image can be
\* read and (height > max_height or width > max_width), where max_height is
\* 4000 and max_width is 4096 when they are not passed; when the dimensions
\* cannot be read it returns false; it never raises.
NeedsTilingExact ==
    /\ h_pc \in {"needs_tiling", "returned"}
    /\ h_pc = "returned" =>
          LET img == h_args.image
              max_height == IF "max_height" \in DOMAIN h_args THEN h_args.max_height ELSE 4000
              max_width == IF "max_width" \in DOMAIN h_args THEN h_args.max_width ELSE 4096
          IN  /\ h_result.value = TRUE <=>
                    (img.readable /\ (img.height > max_height \/ img.width > max_width))
              /\ ~img.readable => h_result.value = FALSE

\* the call with default thresholds on a readable image of height exactly
\* 4000 and width exactly 4096 has returned
NeedsTilingExactWitness ==
    /\ h_pc = "returned"
    /\ DOMAIN h_args = {"image"}
    /\ h_args.image.readable
    /\ h_args.image.height = 4000
    /\ h_args.image.width = 4096
    /\ h_result.value = FALSE

----------------------------------------------------------------------------
\* cleanup_tiles called on its own, and called again on the same list
\* (src/image_tiling.py:354-381)

\* the paths of the list that exist, of which any may fail to be deleted
Deletable(storage, tile_paths) == Range(tile_paths) \cap storage

\* a call of cleanup_tiles on h_args; it returns None, and h_result keeps the
\* counters it logs
CleanupCall ==
    /\ h_pc = "cleanup"
    /\ \E failing \in SUBSET Deletable(files, h_args) :
          /\ files' = CleanupTiles(files, h_args, failing, 0).files
          /\ h_result' = [cleaned_count |-> CleanedCount(files, h_args, failing),
                          error_count |-> CleanupTiles(files, h_args, failing, 0).error_count]
          /\ unlink_failed' = failing
    /\ h_pc' = "cleaned"
    /\ UNCHANGED <<tileVars, analyzeVars, listVars, compareVars, h_args, configVars>>

\* a second call of cleanup_tiles on the same list
CleanupAgain ==
    /\ h_pc = "cleaned"
    /\ \E failing \in SUBSET Deletable(files, h_args) :
          /\ files' = CleanupTiles(files, h_args, failing, 0).files
          /\ h_result' = [cleaned_count |-> CleanedCount(files, h_args, failing),
                          error_count |-> CleanupTiles(files, h_args, failing, 0).error_count]
          /\ unlink_failed' = failing
    /\ h_pc' = "cleaned again"
    /\ UNCHANGED <<tileVars, analyzeVars, listVars, compareVars, h_args, configVars>>

\* the paths a list may name: two tiles of one split and the image itself,
\* which tile_image returns as the only tile of an image it does not split
CleanupPaths ==
    {TilePath("1b9d6bcd", 0, 0, TILE_HEIGHT + TILE_OVERLAP),
     TilePath("1b9d6bcd", 1, TILE_HEIGHT, MAX_HEIGHT + 1),
     SourcePath("image")}

\* every list of up to MaxPaths of these paths, a path possibly more than
\* once, over every storage: a path of the list may already be gone
InitCleanup ==
    /\ h_pc = "cleanup"
    /\ \E n \in 0..MaxPaths : h_args \in [1..n -> CleanupPaths]
    /\ h_result = EmptyDict
    /\ unlink_failed = {}
    /\ ConfigIdle
    /\ files \in SUBSET CleanupPaths
    /\ TileIdle
    /\ AnalyzeIdle
    /\ CompareIdle

NextCleanup == CleanupCall \/ CleanupAgain

SpecCleanup == InitCleanup /\ [][NextCleanup]_vars

\* C19: cleanup_tiles never raises; it attempts every path of its argument,
\* a deletion that fails does not stop the attempts on the paths after it,
\* and when it has returned every path of the argument whose deletion did
\* not fail no longer exists.
CleanupNeverRaises ==
    /\ h_pc \in {"cleanup", "cleaned", "cleaned again"}
    /\ h_pc \in {"cleaned", "cleaned again"} =>
          /\ \A p \in Range(h_args) : p \notin unlink_failed => p \notin files
          /\ h_result.error_count >= Cardinality(unlink_failed)

\* a call has returned in which the deletion of the first path failed and
\* the two paths after it were deleted
CleanupNeverRaisesWitness ==
    /\ h_pc = "cleaned"
    /\ Len(h_args) = 3
    /\ unlink_failed = {h_args[1]}
    /\ h_args[1] \in files
    /\ h_result.cleaned_count = 2
    /\ h_result.error_count = 1

----------------------------------------------------------------------------
\* estimate_tile_count (src/image_tiling.py:411-426), called on the image and
\* tile_height that tile_image is called on

\* lines 422-426
EstimateTileCountFloorPlusOne(img, th) ==
    LET dimensions == GetImageDimensions(img)
    IN  IF dimensions.raised THEN 1
        ELSE IF 1 >= dimensions.height \div th + 1 THEN 1 ELSE dimensions.height \div th + 1
EstimateTileCount(img, th) ==
    LET dimensions == GetImageDimensions(img)
        count == (dimensions.height + th - 1) \div th
    IN  IF dimensions.raised THEN 1
        ELSE IF 1 >= count THEN 1 ELSE count

\* a call of estimate_tile_count
EstimateCall ==
    /\ h_pc = "estimate"
    /\ h_result' = [value |-> EstimateTileCount(h_args.image, h_args.tile_height)]
    /\ h_pc' = "returned"
    /\ UNCHANGED <<files, tileVars, analyzeVars, listVars, compareVars, h_args, unlink_failed, configVars>>

InitEstimate ==
    /\ t_pc = "enter"
    /\ \E h \in 1..MaxHeight, r \in BOOLEAN :
          image = [path |-> SourcePath("image"), width |-> 1, height |-> h, readable |-> r]
    /\ tile_height \in 1..MaxTileHeight
    /\ overlap \in 0..MaxOverlap
    /\ image_id = "none"
    /\ y_offset = 0
    /\ tile_index = 0
    /\ tiles = <<>>
    /\ files = {SourcePath("image")}
    /\ AnalyzeIdle
    /\ CompareIdle
    /\ h_pc = "estimate"
    /\ h_args = [image |-> image, tile_height |-> tile_height]
    /\ h_result = EmptyDict
    /\ unlink_failed = {}
    /\ ConfigIdle

NextEstimate == TileEnter \/ TileLoop \/ TileSaveFails \/ TileReturn \/ EstimateCall

SpecEstimate == InitEstimate /\ [][NextEstimate]_vars

\* the least k with k * th >= height
Ceiling(height, th) == CHOOSE k \in 0..height : k * th >= height /\ (k - 1) * th < height

\* C22: for every readable image and tile_height >= 1, estimate_tile_count
\* returns max(1, ceil(height / tile_height)), and that is the number of
\* tiles tile_image returns for the same image and tile_height, whatever the
\* overlap.
EstimateMatchesSplit ==
    (h_pc = "returned" /\ image.readable) =>
        /\ h_result.value >= 1
        /\ h_result.value >= Ceiling(image.height, tile_height)
        /\ h_result.value \in {1, Ceiling(image.height, tile_height)}
        /\ Returned => Len(tiles) = h_result.value

\* the estimate and the split of an image of two full tiles and a rest,
\* with an overlap, have both returned
EstimateMatchesSplitWitness ==
    /\ h_pc = "returned"
    /\ Returned
    /\ overlap > 0
    /\ image.height = 2 * tile_height + 1
    /\ Len(tiles) = 3
    /\ h_result.value = 3

----------------------------------------------------------------------------
\* get_optimal_tile_settings (src/image_tiling.py:384-408)

\* lines 396-408
GetOptimalTileSettingsStrict(image_width, image_height) ==
    IF image_height < 4000 THEN [tile_height |-> image_height, overlap |-> 0]
    ELSE IF image_height < 8000 THEN [tile_height |-> 3500, overlap |-> 250]
    ELSE [tile_height |-> 3000, overlap |-> 200]
GetOptimalTileSettings(image_width, image_height) ==
    IF image_height <= 4000 THEN [tile_height |-> image_height, overlap |-> 0]
    ELSE IF image_height <= 8000 THEN [tile_height |-> 3500, overlap |-> 250]
    ELSE [tile_height |-> 3000, overlap |-> 200]

\* a call of get_optimal_tile_settings
SettingsCall ==
    /\ h_pc = "settings"
    /\ h_result' = GetOptimalTileSettings(h_args.image_width, h_args.image_height)
    /\ h_pc' = "returned"
    /\ UNCHANGED <<files, tileVars, analyzeVars, listVars, compareVars, h_args, unlink_failed, configVars>>

\* heights below, at and above the two tier limits, and widths on both sides
\* of the width limit of needs_tiling
SettingsHeights ==
    {1, 1080, 3000, 3500, 3999, 4000, 4001, 6200, 7999, 8000, 8001, 9168, 12000}
SettingsWidths == {1, 1920, MAX_WIDTH, MAX_WIDTH + 1, 8192}

InitSettings ==
    /\ h_pc = "settings"
    /\ \E w \in SettingsWidths, h \in SettingsHeights :
          h_args = [image_width |-> w, image_height |-> h]
    /\ h_result = EmptyDict
    /\ unlink_failed = {}
    /\ ConfigIdle
    /\ files = {}
    /\ TileIdle
    /\ AnalyzeIdle
    /\ CompareIdle

NextSettings == SettingsCall

SpecSettings == InitSettings /\ [][NextSettings]_vars

\* C23: the tiered policy. height <= 4000 gives tile_height = height and
\* overlap = 0; 4000 < height <= 8000 gives tile_height = 3500 and overlap =
\* 250; height > 8000 gives tile_height = 3000 and overlap = 200; and the
\* result is the same for every width.
TieredPolicy ==
    h_pc = "returned" =>
        LET height == h_args.image_height
        IN  /\ DOMAIN h_result = {"tile_height", "overlap"}
            /\ height <= 4000 => (h_result.tile_height = height /\ h_result.overlap = 0)
            /\ (4000 < height /\ height <= 8000) =>
                  (h_result.tile_height = 3500 /\ h_result.overlap = 250)
            /\ height > 8000 => (h_result.tile_height = 3000 /\ h_result.overlap = 200)
            /\ \A w \in SettingsWidths : GetOptimalTileSettings(w, height) = h_result

\* the call on an image of height exactly 8000, wider than the width limit,
\* has returned
TieredPolicyWitness ==
    /\ h_pc = "returned"
    /\ h_args.image_height = 8000
    /\ h_args.image_width > MAX_WIDTH
    /\ h_result = [tile_height |-> 3500, overlap |-> 250]

----------------------------------------------------------------------------
\* tile_image called with any integer tile_height and overlap, the ones that
\* are zero or negative included (src/image_tiling.py:85-160). The function
\* checks neither argument. Whether crop and save accept a box that is empty
\* or upside down depends on the imaging library, so for such a box both
\* TileLoop (it does) and TileSaveFails (it raises) are followed.

InitTileAny ==
    /\ t_pc = "enter"
    /\ \E h \in 1..MaxHeight, r \in BOOLEAN :
          image = [path |-> SourcePath("image"), width |-> 1, height |-> h, readable |-> r]
    /\ tile_height \in -MaxBelowZero..MaxTileHeight
    /\ overlap \in -MaxOverlapBelowZero..MaxOverlap
    /\ image_id = "none"
    /\ y_offset = 0
    /\ tile_index = 0
    /\ tiles = <<>>
    /\ files = {SourcePath("image")}
    /\ AnalyzeIdle
    /\ CompareIdle
    /\ HelperIdle

\* the loop is followed for at most MaxHeight + 1 iterations; a split that
\* ends has at most MaxHeight tiles
NextTileAny ==
    \/ TileEnter
    \/ (tile_index <= MaxHeight /\ TileLoop)
    \/ TileSaveFails
    \/ TileReturn

SpecTileAny == InitTileAny /\ [][NextTileAny]_vars

\* C28: tile_image terminates for every height >= 1 and every integer
\* tile_height and overlap, tile_height <= 0 included: it returns or raises
\* at once, or every iteration of its loop moves y_offset towards height,
\* so that the loop condition y_offset < height fails after finitely many
\* iterations.
TileImageTerminates ==
    [][(t_pc = "loop" /\ tile_index' # tile_index) =>
          /\ y_offset' > y_offset
          /\ image.height - y_offset' < image.height - y_offset]_vars

----------------------------------------------------------------------------
\* The model configuration file and its cache: ScreenshotMonitor.load_model_config
\* (src/screenshot_monitor.py:150-198) and ScreenshotMonitor.list_available_models
\* (src/screenshot_monitor.py:603-634), which share the class attributes
\* _config_cache and _config_file_timestamps (lines 70-71).
\*
\* A JSON object is a record, a JSON array is [json_array |-> its elements].

\* screenshot_monitor.py:108: the default path, the key of both caches
CONFIG_FILE == "models.json"

\* isinstance(value, dict)
IsDict(value) == "json_array" \notin DOMAIN value

\* line 183: required_fields
RequiredFields == {"inference_profile", "direct", "description"}

\* lines 175-187: the structure validation; TRUE when no ValueError is raised
ValidateConfig(config) ==
    /\ "models" \in DOMAIN config
    /\ IsDict(config.models)
    /\ \A model_name \in DOMAIN config.models :
          \A field \in RequiredFields : field \in DOMAIN config.models[model_name]

\* lines 165-167 and 618-620: the cached configuration is still valid
CacheIsFresh ==
    /\ CONFIG_FILE \in DOMAIN config_cache
    /\ CONFIG_FILE \in DOMAIN config_file_timestamps
    /\ config_file_timestamps[CONFIG_FILE] >= config_file.mtime

\* lines 150-198: a call of load_model_config
LoadModelConfig ==
    /\ h_pc = "config"
    /\ IF ~config_file.exists
         THEN /\ h_result' = [call |-> "load_model_config", raised |-> "FileNotFoundError"]
              /\ UNCHANGED <<config_cache, config_file_timestamps>>
         ELSE IF CacheIsFresh
           THEN /\ h_result' = [call |-> "load_model_config",
                                 value |-> config_cache[CONFIG_FILE]]
                /\ UNCHANGED <<config_cache, config_file_timestamps>>
           ELSE IF ~config_file.content.parses \/ ~ValidateConfig(config_file.content.value)
             THEN /\ h_result' = [call |-> "load_model_config", raised |-> "ValueError"]
                  /\ UNCHANGED <<config_cache, config_file_timestamps>>
             ELSE /\ config_cache' = (CONFIG_FILE :> config_file.content.value) @@ config_cache
                  /\ config_file_timestamps' =
                        (CONFIG_FILE :> config_file.mtime) @@ config_file_timestamps
                  /\ h_result' = [call |-> "load_model_config",
                                   value |-> config_file.content.value]
    /\ UNCHANGED <<files, tileVars, analyzeVars, listVars, compareVars, h_pc, h_args,
                   unlink_failed, config_file>>

\* lines 603-634: a call of list_available_models; it returns None
ListAvailableModels ==
    /\ h_pc = "config"
    /\ IF config_file.exists /\ ~CacheIsFresh /\ config_file.content.parses
         THEN /\ config_cache' = (CONFIG_FILE :> config_file.content.value) @@ config_cache
              /\ config_file_timestamps' =
                    (CONFIG_FILE :> config_file.mtime) @@ config_file_timestamps
         ELSE UNCHANGED <<config_cache, config_file_timestamps>>
    /\ h_result' = [call |-> "list_available_models"]
    /\ UNCHANGED <<files, tileVars, analyzeVars, listVars, compareVars, h_pc, h_args,
                   unlink_failed, config_file>>

\* one model entry with every required field, and one without description
CompleteModel == [inference_profile |-> "us.sonnet", direct |-> "sonnet", description |-> "Sonnet"]
IncompleteModel == [inference_profile |-> "us.haiku", direct |-> "haiku"]

\* what the file may hold: two valid configurations, one whose second model
\* lacks a field, one whose models is a list, one without models, and text
\* that is not JSON
ConfigContents ==
    {[parses |-> TRUE, value |-> [models |-> [sonnet |-> CompleteModel]]],
     [parses |-> TRUE,
      value |-> [models |-> [sonnet |-> CompleteModel], default_model |-> "sonnet"]],
     [parses |-> TRUE,
      value |-> [models |-> [sonnet |-> CompleteModel, haiku |-> IncompleteModel]]],
     [parses |-> TRUE, value |-> [models |-> [json_array |-> <<"sonnet">>]]],
     [parses |-> TRUE, value |-> [default_model |-> "sonnet"]],
     [parses |-> FALSE]}

\* the file is written: new content, later modification time
ModifyConfigFile ==
    /\ h_pc = "config"
    /\ \E content \in ConfigContents :
          config_file' = [exists |-> TRUE, content |-> content,
                          mtime |-> IF config_file.exists THEN config_file.mtime + 1 ELSE 0]
    /\ config_file.exists => config_file.mtime < MaxModifications
    /\ UNCHANGED <<files, tileVars, analyzeVars, listVars, compareVars, h_pc, h_args,
                   h_result, unlink_failed, config_cache, config_file_timestamps>>

\* the state after the class is defined: both caches empty (lines 70-71)
InitConfig ==
    /\ h_pc = "config"
    /\ h_args = EmptyDict
    /\ h_result = EmptyDict
    /\ unlink_failed = {}
    /\ config_file = [exists |-> FALSE]
    /\ config_cache = EmptyDict
    /\ config_file_timestamps = EmptyDict
    /\ files = {}
    /\ TileIdle
    /\ AnalyzeIdle
    /\ CompareIdle

NextConfig == LoadModelConfig \/ ListAvailableModels \/ ModifyConfigFile

SpecConfig == InitConfig /\ [][NextConfig]_vars

\* a configuration has a models dictionary whose every entry has
\* inference_profile, direct and description
WellFormed(config) ==
    /\ "models" \in DOMAIN config
    /\ "json_array" \notin DOMAIN config.models
    /\ \A name \in DOMAIN config.models :
          {"inference_profile", "direct", "description"} \subseteq DOMAIN config.models[name]

\* C30: configuration cache validity. After any sequence of load_model_config
\* calls, list_available_models calls and modifications of the file, every
\* configuration load_model_config returns is well formed, and no
\* configuration that is not well formed is stored in the shared cache.
ConfigCacheValid ==
    /\ (h_pc = "config" /\ "value" \in DOMAIN h_result) => WellFormed(h_result.value)
    /\ \A path \in DOMAIN config_cache : WellFormed(config_cache[path])

====
